---------------------------- MODULE Spec2Model ----------------------------
(***************************************************************************)
(* A model of pandas/core/apply.py: the construction of an apply job        *)
(* (frame_apply, Apply.__init__), aggregate resolution (Apply.agg) and the  *)
(* table apply path (FrameApply.apply and the paths it dispatches to),      *)
(* under Spec; and the series apply path (series_apply, SeriesApply), under *)
(* SeriesSpec.                                                              *)
(*                                                                          *)
(* One behaviour of the model is one top-level call: a job is constructed   *)
(* over a table, get_result() is called on it, and the chosen path runs to  *)
(* a result or to an exception.  The slice loops (broadcast, standard) are  *)
(* one step per slice.                                                      *)
(***************************************************************************)
EXTENDS Integers, Sequences, FiniteSets, TLC

\* Bounds of the model: the largest table has MaxRows rows and MaxCols columns.
MaxRows == 2
MaxCols == 2

---------------------------------------------------------------------------
(* Labels, tables and series                                               *)

\* Labels are pairs: <<"r", i>> a row label, <<"c", j>> a column label,
\* <<"i", k>> the k-th label of a default integer index (RangeIndex, 0-based),
\* <<"k", j>> a label of the transformation's own making.
RowLabel(i) == <<"r", i>>
ColLabel(j) == <<"c", j>>
RangeLabel(k) == <<"i", k>>
OwnLabel(j) == <<"k", j>>
NoName == <<"none", 0>>

RangeIndex(n) == [k \in 1..n |-> RangeLabel(k - 1)]

\* Cell values are integers; NaN and the content of an unwritten cell of a
\* freshly allocated buffer are sentinels outside the cells' range.
NaN == -1
Uninit == -2

\* The value pattern a table is filled with: every cell distinct, so that a
\* cell put in the wrong place shows.
Patterns == {"distinct"}
CellValue(pattern, r, c) == IF pattern = "distinct" THEN 10 * r + c ELSE 1

\* A table: row labels, column labels, values[r][c].
MakeTable(index, columns, values) ==
    [t |-> "table", index |-> index, columns |-> columns, values |-> values]

\* A series: labels, values, name.
MakeSeries(index, values, name) ==
    [t |-> "series", index |-> index, values |-> values, name |-> name]

Table(nrows, ncols, pattern) ==
    MakeTable([r \in 1..nrows |-> RowLabel(r)],
              [c \in 1..ncols |-> ColLabel(c)],
              [r \in 1..nrows |-> [c \in 1..ncols |-> CellValue(pattern, r, c)]])

Tables == {Table(nr, nc, p) : nr \in 0..MaxRows, nc \in 0..MaxCols, p \in Patterns}

NRows(tb) == Len(tb.index)
NCols(tb) == Len(tb.columns)

\* DataFrame.T
Transpose(tb) ==
    MakeTable(tb.columns, tb.index,
              [c \in 1..NCols(tb) |-> [r \in 1..NRows(tb) |-> tb.values[r][c]]])

\* DataFrame.copy()
CopyTable(tb) == MakeTable(tb.index, tb.columns, tb.values)

\* obj._ixs(i, axis=1), target[col]: the i-th column as a series
ColumnSlice(tb, i) ==
    MakeSeries(tb.index, [r \in 1..NRows(tb) |-> tb.values[r][i]], tb.columns[i])

\* obj._ixs(i, axis=0): the i-th row as a series
RowSlice(tb, i) ==
    MakeSeries(tb.columns, [c \in 1..NCols(tb) |-> tb.values[i][c]], tb.index[i])

\* Series([], dtype=np.float64)
EmptyProbe == MakeSeries(<<>>, <<>>, NoName)

\* obj._get_agg_axis(axis)
AggAxis(tb, axis) == IF axis = 0 THEN tb.columns ELSE tb.index


---------------------------------------------------------------------------
(* Transformations and the values they return                              *)

\* What a transformation returns for one slice (a raw result): a scalar, a
\* series, a plain list, a plain mapping, a two-dimensional array, or an
\* exception.  alias is TRUE when the result is the very slice object that
\* was passed in.
Scalar(v) ==
    [t |-> "scalar", index |-> <<>>, values |-> <<v>>, name |-> NoName, alias |-> FALSE]
SeriesResult(index, values, name, alias) ==
    [t |-> "series", index |-> index, values |-> values, name |-> name, alias |-> alias]
ListResult(values) ==
    [t |-> "list", index |-> <<>>, values |-> values, name |-> NoName, alias |-> FALSE]
DictResult(keys, values) ==
    [t |-> "dict", index |-> keys, values |-> values, name |-> NoName, alias |-> FALSE]
Array2D ==
    [t |-> "array2d", index |-> <<>>, values |-> <<>>, name |-> NoName, alias |-> FALSE]
Raised(e) ==
    [t |-> "raise", index |-> <<>>, values |-> <<>>, name |-> <<e, 0>>, alias |-> FALSE]

IsRaise(r) == r.t = "raise"
ErrorOf(r) == r.name[1]

\* isinstance(x, Series) / isinstance(x, ABCSeries)
IsSeries(r) == r.t = "series"
\* isinstance(x, dict)
IsDict(r) == r.t = "dict"
\* pandas.core.dtypes.common.is_sequence: iterable with a length, not a string
IsSequence(r) == r.t \in {"series", "list", "dict", "array2d"}

\* The transformations of the model.  A plain callable is described by what it
\* returns; np.sum is the callable the target recognises as a built-in
\* reduction (obj._get_cython_func).
\* The last five return different kinds of value for the table's first slice
\* and for the others.
Behaviours ==
    {"identity", "sum", "const", "first", "raise", "tolist", "short", "two_d",
     "to_dict", "relabel",
     "ragged", "scalar_then_list", "list_then_scalar", "series_then_list", "raise_later"}
Callables == [kind : {"callable"}, beh : Behaviours, cython : {FALSE}]
NpSum == [kind |-> "callable", beh |-> "sum", cython |-> TRUE]
Ufunc == [kind |-> "ufunc", beh |-> "negative", cython |-> FALSE]
MethodName == [kind |-> "str", beh |-> "sum", cython |-> FALSE]
FuncList == [kind |-> "list", beh |-> "sum", cython |-> FALSE]
FuncDict == [kind |-> "dict", beh |-> "sum", cython |-> FALSE]
NoFunc == [kind |-> "none", beh |-> "none", cython |-> FALSE]
Funcs == Callables \cup {NpSum, Ufunc, MethodName, FuncList, FuncDict, NoFunc}

\* isinstance(func, str)
IsStr(fn) == fn.kind = "str"
\* isinstance(func, np.ufunc)
IsUfunc(fn) == fn.kind = "ufunc"
\* is_dict_like
IsDictLike(fn) == fn.kind = "dict"
\* is_list_like: lists and mappings are, strings and callables are not
IsListLike(fn) == fn.kind \in {"list", "dict"}
\* callable(func)
IsCallable(fn) == fn.kind \in {"callable", "ufunc"}

\* Extra positional args: absent (None), empty, or one value.
\* Extra keyword args: absent (None), empty, or one entry.
NoArgs == [present |-> FALSE, items |-> <<>>]
ArgChoices == {NoArgs, [present |-> TRUE, items |-> <<>>], [present |-> TRUE, items |-> <<5>>]}
\* A keyword mapping is a set of <<key, value>> entries.
NoKwds == [present |-> FALSE, map |-> {}]
KwdChoices ==
    {NoKwds, [present |-> TRUE, map |-> {}], [present |-> TRUE, map |-> {<<"k", 30>>}],
     [present |-> TRUE, map |-> {<<"_axis", 0>>}]}

\* Python truthiness of args / kwds: None and the empty collection are false
Truthy(a) == a.present /\ DOMAIN a.items # {}
TruthyKw(k) == k.present /\ k.map # {}

RECURSIVE SumSeq(_)
SumSeq(s) == IF s = <<>> THEN 0 ELSE s[1] + SumSeq(Tail(s))

RECURSIVE SumMap(_)
SumMap(m) ==
    IF m = {} THEN 0
    ELSE LET entry == CHOOSE x \in m : TRUE
         IN  entry[2] + SumMap(m \ {entry})

\* Whether x is the first slice of its table, as a transformation can tell
\* from the data: the slice begins with the table's top-left cell.
IsFirstSlice(x) == x.values # <<>> /\ x.values[1] = CellValue("distinct", 1, 1)

\* func(x, *items, **map) for a callable func: what the transformation returns
\* for slice x when called with the extra arguments.  The extra arguments are
\* added to every value the transformation produces.
Call(fn, x, items, map) ==
    LET e == SumSeq(items) + SumMap(map)
        shifted == [j \in DOMAIN x.values |-> x.values[j] + e]
        first == IsFirstSlice(x)
    IN  CASE fn.kind = "none" -> Raised("TypeError")
          [] fn.kind = "ufunc" ->
               SeriesResult(x.index, [j \in DOMAIN x.values |-> 0 - x.values[j]],
                            x.name, FALSE)
          [] fn.beh = "identity" ->
               IF e = 0 THEN SeriesResult(x.index, x.values, x.name, TRUE)
               ELSE SeriesResult(x.index, shifted, x.name, FALSE)
          [] fn.beh = "sum" -> Scalar(SumSeq(x.values) + e)
          [] fn.beh = "const" -> Scalar(7 + e)
          [] fn.beh = "first" ->
               IF Len(x.values) = 0 THEN Raised("IndexError")
               ELSE Scalar(x.values[1] + e)
          [] fn.beh = "raise" -> Raised("UserError")
          [] fn.beh = "tolist" -> ListResult(shifted)
          [] fn.beh = "short" -> ListResult(<<7 + e>>)
          [] fn.beh = "two_d" -> Array2D
          [] fn.beh = "to_dict" -> DictResult(x.index, shifted)
          [] fn.beh = "relabel" ->
               SeriesResult([j \in DOMAIN x.index |-> OwnLabel(j)], shifted,
                            x.name, FALSE)
          [] fn.beh = "ragged" ->
               IF first THEN ListResult(<<7 + e, 8 + e>>) ELSE ListResult(<<7 + e>>)
          [] fn.beh = "scalar_then_list" ->
               IF first THEN Scalar(7 + e) ELSE ListResult(shifted)
          [] fn.beh = "list_then_scalar" ->
               IF first THEN ListResult(shifted) ELSE Scalar(7 + e)
          [] fn.beh = "series_then_list" ->
               IF first THEN SeriesResult(x.index, shifted, x.name, FALSE)
               ELSE ListResult(shifted)
          [] fn.beh = "raise_later" ->
               IF first \/ x.values = <<>> THEN Scalar(7 + e) ELSE Raised("UserError")

\* The job's effective function: the transformation itself, or the closure
\* f(x) = func(x, *args, **kwds) over the constructor's own args and kwds.
Uncurried(fn) == [curried |-> FALSE, func |-> fn]
Curried(fn) == [curried |-> TRUE, func |-> fn]

\* Calling the effective function on a slice.  The closure unpacks the
\* constructor's args and kwds as they were passed: unpacking None is a
\* TypeError.
Invoke(f, x, a, k) ==
    IF f.curried
    THEN IF ~a.present \/ ~k.present THEN Raised("TypeError")
         ELSE Call(f.func, x, a.items, k.map)
    ELSE Call(f.func, x, <<>>, {})


---------------------------------------------------------------------------
(* State                                                                   *)

VARIABLES
    obj,            \* the table the job is built over
    how,            \* "apply" or "agg"
    func,           \* the transformation as passed
    axis,           \* 0 or 1
    raw,            \* the raw flag
    result_type,    \* the result_type as passed
    args,           \* the extra positional args as passed (may be absent)
    kwds,           \* the caller's keyword mapping (may be absent)
    job,            \* the apply job (self) once constructed
    pc,             \* where the call is
    branch,         \* the branch FrameApply.apply took (0: none yet)
    i,              \* the number of slices the running loop has finished
    results,        \* the raw-result map of the standard path (positions 0..i-1)
    ser,            \* the one series object the column-wise generator reuses
    result_values,  \* the buffer the broadcast evaluator fills
    calls,          \* the slices the transformation was invoked on, in order
    output,         \* what the call returned
    err,            \* the exception the call ended with ("" : none)
    convert_dtype   \* the convert_dtype flag of a series job

inputs == <<obj, how, func, axis, raw, result_type, args, convert_dtype>>
vars == <<obj, how, func, axis, raw, result_type, args, kwds, job, pc, branch, i,
          results, ser, result_values, calls, output, err, convert_dtype>>

ValidResultTypes == {"None", "reduce", "broadcast", "expand"}
ResultTypes == ValidResultTypes \cup {"bogus"}

NoJob ==
    [obj |-> Table(0, 0, "distinct"), how |-> "", raw |-> FALSE, args |-> <<>>,
     kwds |-> {}, result_type |-> "", f |-> Uncurried(NoFunc), axis |-> 0]
NoOutput == [t |-> "none"]
NoSeries == MakeSeries(<<>>, <<>>, NoName)

Init ==
    /\ obj \in Tables
    /\ how \in {"apply", "agg"}
    /\ func \in Funcs
    /\ axis \in {0, 1}
    /\ raw \in BOOLEAN
    /\ result_type \in ResultTypes
    /\ args \in ArgChoices
    /\ kwds \in KwdChoices
    /\ job = NoJob
    /\ pc = "start"
    /\ branch = 0
    /\ i = 0
    /\ results = <<>>
    /\ ser = NoSeries
    /\ result_values = <<>>
    /\ calls = <<>>
    /\ output = NoOutput
    /\ err = ""
    \* a table job has no convert_dtype
    /\ convert_dtype = FALSE

\* The call ends with exception e: nothing is returned.
Fail(e) == pc' = "failed" /\ err' = e /\ output' = NoOutput
\* The call returns out.
Return(out) == pc' = "done" /\ err' = "" /\ output' = out

---------------------------------------------------------------------------
(* frame_apply and Apply.__init__                                          *)

\* args or (), kwds or {}
ArgsOrEmpty(a) == IF Truthy(a) THEN a.items ELSE <<>>
KwdsOrEmpty(k) == IF TruthyKw(k) THEN k.map ELSE {}

\* (kwds or args) and not isinstance(func, (np.ufunc, str)) and not is_list_like(func)
NeedsCurry(fn, a, k) ==
    /\ TruthyKw(k) \/ Truthy(a)
    /\ ~(IsUfunc(fn) \/ IsStr(fn))
    /\ ~IsListLike(fn)

EffectiveFunction(fn, a, k) == IF NeedsCurry(fn, a, k) THEN Curried(fn) ELSE Uncurried(fn)

\* A validation that forgets 'expand'.
ResultTypeOKNoExpand(rt) == rt \in {"None", "reduce", "broadcast"}

ResultTypeOK(rt) == rt \in ValidResultTypes

Construct ==
    /\ pc = "start"
    /\ IF ~ResultTypeOK(result_type)
       THEN /\ Fail("ValueError")
            /\ UNCHANGED job
       ELSE /\ job' = [obj |-> obj, how |-> how, raw |-> raw,
                       args |-> ArgsOrEmpty(args), kwds |-> KwdsOrEmpty(kwds),
                       result_type |-> result_type,
                       f |-> EffectiveFunction(func, args, kwds), axis |-> axis]
            /\ pc' = "constructed"
            /\ UNCHANGED <<output, err>>
    /\ UNCHANGED <<inputs, kwds, branch, i, results, ser, result_values, calls>>

\* The job's effective function applied to slice x.
F(x) == Invoke(job.f, x, args, kwds)

---------------------------------------------------------------------------
(* Apply.agg                                                               *)

\* kwargs.pop(key, None): the mapping without the key
Pop(map, key) == {e \in map : e[1] # key}
\* map[key] = value
SetKey(map, key, value) == Pop(map, key) \cup {<<key, value>>}

\* The caller's mapping is the job's own mapping when it was passed non-empty
\* (kwds or {} keeps the object), so a change of one is a change of both.
SetKwds(map) ==
    /\ job' = [job EXCEPT !.kwds = map]
    /\ kwds' = IF TruthyKw(kwds) THEN [kwds EXCEPT !.map = map] ELSE kwds

\* A call the module hands over to a collaborator.
Delegated(to) == [t |-> "delegated", to |-> to]
AggResult(result, flag) == [t |-> "agg", result |-> result, how |-> flag]

\* The type tests of the module on the effective function: a closure is a
\* callable and nothing else.
FIsStr(f) == ~f.curried /\ IsStr(f.func)
FIsUfunc(f) == ~f.curried /\ IsUfunc(f.func)
FIsDictLike(f) == ~f.curried /\ IsDictLike(f.func)
FIsListLike(f) == ~f.curried /\ IsListLike(f.func)
FCallable(f) == IF f.curried THEN TRUE ELSE IsCallable(f.func)
\* obj._get_cython_func(arg): the built-in reduction arg stands for, if any
GetCythonFunc(f) == ~f.curried /\ f.func.cython

\* A resolution that tests for a list before a mapping.
AggOutcomeListFirst(arg, a, kwargs) ==
    IF FIsStr(arg) THEN AggResult(Delegated("_try_aggregate_string_function"), "None")
    ELSE IF FIsListLike(arg) THEN AggResult(Delegated("agg_list_like"), "None")
    ELSE IF FIsDictLike(arg) THEN AggResult(Delegated("agg_dict_like"), "True")
    ELSE IF FCallable(arg) /\ GetCythonFunc(arg) /\ a = <<>> /\ kwargs = {}
         THEN AggResult(Delegated("cython"), "None")
    ELSE AggResult(NoOutput, "True")

\* What agg returns for effective function arg, args a and the keyword
\* mapping kwargs left after "_axis" was popped: (result, how).
AggOutcome(arg, a, kwargs) ==
    IF FIsStr(arg) THEN AggResult(Delegated("_try_aggregate_string_function"), "None")
    ELSE IF FIsDictLike(arg) THEN AggResult(Delegated("agg_dict_like"), "True")
    ELSE IF FIsListLike(arg) THEN AggResult(Delegated("agg_list_like"), "None")
    ELSE IF FCallable(arg) /\ GetCythonFunc(arg) /\ a = <<>> /\ kwargs = {}
         THEN AggResult(Delegated("cython"), "None")
    ELSE AggResult(NoOutput, "True")

\* get_result() with how = "agg"
Agg ==
    /\ pc = "constructed"
    /\ job.how = "agg"
    /\ SetKwds(Pop(job.kwds, "_axis"))
    /\ Return(AggOutcome(job.f, job.args, Pop(job.kwds, "_axis")))
    /\ UNCHANGED <<inputs, branch, i, results, ser, result_values, calls>>

---------------------------------------------------------------------------
(* FrameApply.apply                                                        *)

\* A dispatch that tests for broadcast before the universal function and for
\* an empty axis before broadcast.
DispatchReordered(j) ==
    IF FIsListLike(j.f) \/ FIsDictLike(j.f) THEN 1
    ELSE IF NCols(j.obj) = 0 /\ NRows(j.obj) = 0 THEN 2
    ELSE IF FIsStr(j.f) THEN 3
    ELSE IF NRows(j.obj) = 0 \/ NCols(j.obj) = 0 THEN 6
    ELSE IF j.result_type = "broadcast" THEN 5
    ELSE IF FIsUfunc(j.f) THEN 4
    ELSE IF j.raw THEN 7
    ELSE 8

\* The branch of FrameApply.apply a job takes: the first whose condition holds.
Dispatch(j) ==
    IF FIsListLike(j.f) \/ FIsDictLike(j.f) THEN 1
    ELSE IF NCols(j.obj) = 0 /\ NRows(j.obj) = 0 THEN 2
    ELSE IF FIsStr(j.f) THEN 3
    ELSE IF FIsUfunc(j.f) THEN 4
    ELSE IF j.result_type = "broadcast" THEN 5
    ELSE IF NRows(j.obj) = 0 \/ NCols(j.obj) = 0 THEN 6
    ELSE IF j.raw THEN 7
    ELSE 8

\* self.obj._mgr.apply("apply", func=self.f) and the constructor that retains
\* the labels: the universal function on every cell.
UfuncTable(tb) ==
    MakeTable(tb.index, tb.columns,
              [r \in 1..NRows(tb) |-> [c \in 1..NCols(tb) |-> 0 - tb.values[r][c]]])

\* np.empty_like(target.values)
EmptyLike(tb) == [r \in 1..NRows(tb) |-> [c \in 1..NCols(tb) |-> Uninit]]

\* The table the broadcast evaluator iterates over: the target for axis 0, its
\* transpose for axis 1.
BroadcastTarget(j) == IF j.axis = 0 THEN j.obj ELSE Transpose(j.obj)

\* get_result() with how = "apply": the dispatch of FrameApply.apply.  The
\* branches that hand the whole call over (1, 3, 4) return here; the others
\* continue in the path they chose.
Apply ==
    /\ pc = "constructed"
    /\ job.how = "apply"
    /\ branch' = Dispatch(job)
    /\ LET b == Dispatch(job) IN
       CASE b = 1 ->
              /\ Return(Delegated("aggregate"))
              /\ UNCHANGED <<job, kwds, result_values>>
         [] b = 3 ->
              \* the named method takes an axis: it is put into self.kwds
              /\ SetKwds(SetKey(job.kwds, "axis", job.axis))
              /\ Return(Delegated("method"))
              /\ UNCHANGED result_values
         [] b = 4 ->
              /\ Return(UfuncTable(job.obj))
              /\ UNCHANGED <<job, kwds, result_values>>
         [] b \in {2, 6} ->
              /\ pc' = "empty"
              /\ UNCHANGED <<job, kwds, result_values, output, err>>
         [] b = 5 ->
              /\ IF FCallable(job.f)
                 THEN /\ pc' = "broadcast"
                      /\ result_values' = EmptyLike(BroadcastTarget(job))
                      /\ UNCHANGED <<output, err>>
                 ELSE /\ Fail("AssertionError")
                      /\ UNCHANGED result_values
              /\ UNCHANGED <<job, kwds>>
         [] b = 7 ->
              /\ pc' = "raw"
              /\ UNCHANGED <<job, kwds, result_values, output, err>>
         [] b = 8 ->
              /\ pc' = "standard"
              /\ UNCHANGED <<job, kwds, result_values, output, err>>
    /\ UNCHANGED <<inputs, i, results, ser, calls>>

---------------------------------------------------------------------------
(* FrameApply.apply_empty_result                                           *)

\* One invocation of the transformation, as the call log records it: the
\* position of the slice (-1: the empty probe) and the slice's name.
CallOn(pos, x) == [pos |-> pos, name |-> x.name]
ProbeCall == CallOn(-1, EmptyProbe)

\* obj._constructor_sliced(r, index=index): a series over index made of one
\* value.  A scalar is repeated for every label; a list must have the length
\* of the index; a mapping is looked up label by label (NaN where the label is
\* no key); a series is reindexed likewise; more dimensions are refused.
SlicedFromValue(r, index) ==
    CASE r.t = "scalar" ->
           MakeSeries(index, [k \in DOMAIN index |-> r.values[1]], NoName)
      [] r.t = "list" ->
           IF Len(r.values) = Len(index) THEN MakeSeries(index, r.values, NoName)
           ELSE Raised("ValueError")
      [] r.t \in {"dict", "series"} ->
           MakeSeries(index,
                      [k \in DOMAIN index |->
                          IF \E j \in DOMAIN r.index : r.index[j] = index[k]
                          THEN r.values[CHOOSE j \in DOMAIN r.index : r.index[j] = index[k]]
                          ELSE NaN],
                      NoName)
      [] OTHER -> Raised("ValueError")

\* An inference that takes every probe result, a series included, for a
\* reduction.
ShouldReduceAnyResult(j, probe) == j.result_type = "reduce" \/ ~IsRaise(probe)

\* A path that reduces only when asked to and never infers.
ShouldReduceNoInference(j, probe) == j.result_type = "reduce"

\* Whether the degenerate-empty path treats the transformation as a
\* reduction: asked for, or inferred from the probe.
ShouldReduce(j, probe) == j.result_type = "reduce" \/ (~IsRaise(probe) /\ ~IsSeries(probe))

ApplyEmptyResult ==
    /\ pc = "empty"
    /\ IF ~FCallable(job.f)
       THEN Fail("AssertionError") /\ UNCHANGED calls
       ELSE IF job.result_type \notin {"reduce", "None"}
       THEN Return(CopyTable(job.obj)) /\ UNCHANGED calls
       ELSE LET probe == F(EmptyProbe)
                inferred == job.result_type # "reduce"
                agg_axis == AggAxis(job.obj, job.axis)
                first == IF inferred THEN <<ProbeCall>> ELSE <<>>
            IN  IF ShouldReduce(job, probe)
                THEN IF Len(agg_axis) > 0
                     THEN /\ calls' = calls \o first \o <<ProbeCall>>
                          /\ IF IsRaise(probe) THEN Fail(ErrorOf(probe))
                             ELSE LET res == SlicedFromValue(probe, agg_axis)
                                  IN  IF IsRaise(res) THEN Fail(ErrorOf(res))
                                      ELSE Return(res)
                     ELSE /\ calls' = calls \o first
                          /\ Return(SlicedFromValue(Scalar(NaN), agg_axis))
                ELSE /\ calls' = calls \o first
                     /\ Return(CopyTable(job.obj))
    /\ UNCHANGED <<inputs, kwds, job, branch, i, results, ser, result_values>>

---------------------------------------------------------------------------
(* FrameApply.apply_broadcast                                              *)

\* np.asarray(res).ndim: a mapping is a zero-dimensional object
Ndim(r) ==
    CASE r.t \in {"scalar", "dict"} -> 0
      [] r.t \in {"series", "list"} -> 1
      [] r.t = "array2d" -> 2

\* len(res)
LenOf(r) == Len(r.values)

\* A fill that repeats the first element of a one-dimensional result.
FillColumnFirstOnly(buffer, c, res) ==
    [r \in DOMAIN buffer |-> [buffer[r] EXCEPT ![c] = res.values[1]]]

\* result_values[:, i] = res, for column c = i + 1: a scalar goes to every row,
\* a one-dimensional result row by row.
FillColumn(buffer, c, res) ==
    [r \in DOMAIN buffer |->
        [buffer[r] EXCEPT ![c] = IF Ndim(res) = 0 THEN res.values[1] ELSE res.values[r]]]

\* The check of one slice's result against the shape to fill: the error it
\* fails with, or "" when it fits.
BroadcastCheck(res, result_compare) ==
    IF Ndim(res) > 1 THEN "ValueError: too many dims to broadcast"
    ELSE IF Ndim(res) = 1 /\ result_compare # LenOf(res)
    THEN "ValueError: cannot broadcast result"
    ELSE ""

\* One turn of the loop over target.columns.
BroadcastStep ==
    /\ pc = "broadcast"
    /\ LET target == BroadcastTarget(job) IN
       /\ i < NCols(target)
       /\ LET col == ColumnSlice(target, i + 1)
              res == F(col)
          IN  /\ calls' = Append(calls, CallOn(i, col))
              /\ IF IsRaise(res)
                 THEN Fail(ErrorOf(res)) /\ UNCHANGED <<i, result_values>>
                 ELSE IF BroadcastCheck(res, NRows(target)) # ""
                 THEN Fail(BroadcastCheck(res, NRows(target))) /\ UNCHANGED <<i, result_values>>
                 ELSE IF IsDict(res)
                 \* a mapping cannot be stored in a numeric buffer
                 THEN Fail("TypeError") /\ UNCHANGED <<i, result_values>>
                 ELSE /\ result_values' = FillColumn(result_values, i + 1, res)
                      /\ i' = i + 1
                      /\ UNCHANGED <<pc, output, err>>
    /\ UNCHANGED <<inputs, kwds, job, branch, results, ser>>

\* A result that is not transposed back.
BroadcastResultNoTranspose(j, buffer) ==
    LET target == BroadcastTarget(j)
    IN  MakeTable(target.index, target.columns, buffer)

\* The table the evaluator returns: the buffer under the target's labels,
\* transposed back for axis 1.
BroadcastResult(j, buffer) ==
    LET target == BroadcastTarget(j)
        result == MakeTable(target.index, target.columns, buffer)
    IN  IF j.axis = 0 THEN result ELSE Transpose(result)

BroadcastFinish ==
    /\ pc = "broadcast"
    /\ i = NCols(BroadcastTarget(job))
    /\ Return(BroadcastResult(job, result_values))
    /\ UNCHANGED <<inputs, kwds, job, branch, i, results, ser, result_values, calls>>

---------------------------------------------------------------------------
(* FrameApply.apply_standard: the slice loop                               *)

\* len(series_generator): the number of slices along the axis
NSlices(j) == IF j.axis = 0 THEN NCols(j.obj) ELSE NRows(j.obj)

\* result_index, result_columns of the two variants
ResultIndex(j) == IF j.axis = 0 THEN j.obj.columns ELSE j.obj.index
ResultColumns(j) == IF j.axis = 0 THEN j.obj.index ELSE j.obj.columns

\* A generator that yields the slices last to first.
SliceAtReversed(j, k) ==
    IF j.axis = 0 THEN ColumnSlice(j.obj, NCols(j.obj) + 1 - k)
    ELSE RowSlice(j.obj, NRows(j.obj) + 1 - k)

\* The k-th slice (k = 1..n) the generator yields: a column for axis 0, a row
\* for axis 1.
SliceAt(j, k) == IF j.axis = 0 THEN ColumnSlice(j.obj, k) ELSE RowSlice(j.obj, k)

\* results[i].copy(deep=False): a new series object over the data and the name
\* the result has now
ShallowCopy(r) == [r EXCEPT !.alias = FALSE]

\* A loop that keeps the raw result as it is, without a copy.
StoreResultNoCopy(r) == r

\* What the loop keeps of a raw result
StoreResult(r) == IF IsSeries(r) THEN ShallowCopy(r) ELSE r

\* A stored result as it reads now.  The column-wise generator yields one
\* series object and swaps its data and name at every step, so a result that
\* is that object reads as the generator's current slice; the row-wise
\* generator yields a new object for every column.
Deref(j, r, s) ==
    IF r.alias /\ j.axis = 1 THEN [r EXCEPT !.values = s.values, !.name = s.name] ELSE r

\* A loop that catches the transformation's exception, keeps NaN for the slice
\* and goes on.
StandardStepCatching ==
    /\ pc = "standard"
    /\ FCallable(job.f)
    /\ i < NSlices(job)
    /\ LET v == SliceAt(job, i + 1)
           r == F(v)
       IN  /\ ser' = v
           /\ calls' = Append(calls, CallOn(i, v))
           /\ results' = Append(results, IF IsRaise(r) THEN Scalar(NaN) ELSE StoreResult(r))
           /\ i' = i + 1
    /\ UNCHANGED <<inputs, kwds, job, pc, branch, result_values, output, err>>

\* One turn of the loop of apply_series_generator.  Its first turn checks that
\* the transformation is callable and, column-wise, that the table has rows.
StandardStep ==
    /\ pc = "standard"
    /\ IF ~FCallable(job.f) \/ (job.axis = 1 /\ NRows(job.obj) = 0)
       THEN /\ i = 0
            /\ Fail("AssertionError")
            /\ UNCHANGED <<i, results, ser, calls>>
       ELSE /\ i < NSlices(job)
            /\ LET v == SliceAt(job, i + 1)
                   r == F(v)
               IN  /\ ser' = v
                   /\ calls' = Append(calls, CallOn(i, v))
                   /\ IF IsRaise(r)
                      THEN Fail(ErrorOf(r)) /\ UNCHANGED <<i, results>>
                      ELSE /\ results' = Append(results, StoreResult(r))
                           /\ i' = i + 1
                           /\ UNCHANGED <<pc, output, err>>
    /\ UNCHANGED <<inputs, kwds, job, branch, result_values>>

---------------------------------------------------------------------------
(* Reassembly: wrap_results and wrap_results_for_axis                      *)

\* A series holding the raw results themselves (object dtype).
ObjSeries(index, rs) == [t |-> "objseries", index |-> index, values |-> rs]

\* constructor_sliced(results) with result.index = res_index: the reduced
\* series of the raw results in positional order.
ReducedSeries(rs, res_index) ==
    IF \A k \in DOMAIN rs : rs[k].t = "scalar"
    THEN MakeSeries(res_index, [k \in DOMAIN rs |-> rs[k].values[1]], NoName)
    ELSE ObjSeries(res_index, rs)

IsLabelled(r) == r.t \in {"series", "dict"}

RECURSIVE AppendNew(_, _)
AppendNew(seq, labels) ==
    IF labels = <<>> THEN seq
    ELSE AppendNew(IF \E k \in DOMAIN seq : seq[k] = labels[1] THEN seq
                   ELSE Append(seq, labels[1]),
                   Tail(labels))

RECURSIVE UnionIndex(_)
UnionIndex(rs) ==
    IF rs = <<>> THEN <<>>
    ELSE LET rest == UnionIndex(SubSeq(rs, 1, Len(rs) - 1))
             last == rs[Len(rs)]
         IN  IF IsLabelled(last) THEN AppendNew(rest, last.index) ELSE rest

LookUp(r, label) ==
    IF \E k \in DOMAIN r.index : r.index[k] = label
    THEN r.values[CHOOSE k \in DOMAIN r.index : r.index[k] = label]
    ELSE NaN

SameLengthError == "ValueError: All arrays must be of the same length"

\* obj._constructor(data=results): a table with one column per raw result,
\* the columns labelled by the positions 0..n-1.  Labelled results (series,
\* mappings) are aligned on the union of their labels; lists are taken by
\* position and must all have the length of the index; scalars are repeated.
FrameFromResults(rs) ==
    LET n == Len(rs)
        lists == {k \in 1..n : rs[k].t = "list"}
        labelled == {k \in 1..n : IsLabelled(rs[k])}
        columns == RangeIndex(n)
        cell(k, row, index) ==
            CASE rs[k].t = "scalar" -> rs[k].values[1]
              [] rs[k].t = "list" -> rs[k].values[row]
              [] OTHER -> LookUp(rs[k], index[row])
        build(index) ==
            MakeTable(index, columns,
                      [row \in DOMAIN index |-> [k \in 1..n |-> cell(k, row, index)]])
    IN  IF \E k \in 1..n : rs[k].t = "array2d" THEN Raised("ValueError")
        ELSE IF labelled # {}
        THEN LET index == UnionIndex(rs)
             IN  IF \E k \in lists : LenOf(rs[k]) # Len(index) THEN Raised("ValueError")
                 ELSE build(index)
        ELSE IF lists # {}
        THEN LET len == LenOf(rs[CHOOSE k \in lists : TRUE])
             IN  IF \E k \in lists : LenOf(rs[k]) # len THEN Raised(SameLengthError)
                 ELSE build(RangeIndex(len))
        ELSE Raised("ValueError")

\* A row-wise reassembly that lets every failure of the table constructor
\* through.
WrapRowNoFallback(j, rs, res_index) ==
    IF j.result_type = "reduce" THEN ObjSeries(res_index, rs)
    ELSE IF j.result_type = "None" /\ \A k \in DOMAIN rs : IsDict(rs[k])
    THEN ObjSeries(res_index, rs)
    ELSE LET result == FrameFromResults(rs)
         IN  IF IsRaise(result) THEN result
             ELSE LET relabelled ==
                          IF ~IsSeries(rs[1]) /\ Len(result.index) = Len(ResultColumns(j))
                          THEN [result EXCEPT !.index = ResultColumns(j)]
                          ELSE result
                  IN  IF Len(relabelled.columns) = Len(res_index)
                      THEN [relabelled EXCEPT !.columns = res_index]
                      ELSE relabelled

\* A row-wise reassembly that reduces mappings under every result_type.
WrapRowDictAnyType(j, rs, res_index) ==
    IF j.result_type = "reduce" THEN ObjSeries(res_index, rs)
    ELSE IF \A k \in DOMAIN rs : IsDict(rs[k])
    THEN ObjSeries(res_index, rs)
    ELSE LET result == FrameFromResults(rs)
         IN  IF IsRaise(result)
             THEN IF ErrorOf(result) = SameLengthError THEN ObjSeries(res_index, rs)
                  ELSE result
             ELSE LET relabelled ==
                          IF ~IsSeries(rs[1]) /\ Len(result.index) = Len(ResultColumns(j))
                          THEN [result EXCEPT !.index = ResultColumns(j)]
                          ELSE result
                  IN  IF Len(relabelled.columns) = Len(res_index)
                      THEN [relabelled EXCEPT !.columns = res_index]
                      ELSE relabelled

\* A row-wise reassembly that assigns the row labels without comparing the
\* lengths first: the assignment fails when they differ.
WrapRowRelabelUnchecked(j, rs, res_index) ==
    IF j.result_type = "reduce" THEN ObjSeries(res_index, rs)
    ELSE IF j.result_type = "None" /\ \A k \in DOMAIN rs : IsDict(rs[k])
    THEN ObjSeries(res_index, rs)
    ELSE LET result == FrameFromResults(rs)
         IN  IF IsRaise(result)
             THEN IF ErrorOf(result) = SameLengthError THEN ObjSeries(res_index, rs)
                  ELSE result
             ELSE IF ~IsSeries(rs[1]) /\ Len(result.index) # Len(ResultColumns(j))
             THEN Raised("ValueError")
             ELSE LET relabelled ==
                          IF ~IsSeries(rs[1])
                          THEN [result EXCEPT !.index = ResultColumns(j)]
                          ELSE result
                  IN  IF Len(relabelled.columns) = Len(res_index)
                      THEN [relabelled EXCEPT !.columns = res_index]
                      ELSE relabelled

\* FrameRowApply.wrap_results_for_axis
WrapRow(j, rs, res_index) ==
    IF j.result_type = "reduce" THEN ObjSeries(res_index, rs)
    ELSE IF j.result_type = "None" /\ \A k \in DOMAIN rs : IsDict(rs[k])
    THEN ObjSeries(res_index, rs)
    ELSE LET result == FrameFromResults(rs)
         IN  IF IsRaise(result)
             THEN IF ErrorOf(result) = SameLengthError THEN ObjSeries(res_index, rs)
                  ELSE result
             ELSE LET relabelled ==
                          IF ~IsSeries(rs[1]) /\ Len(result.index) = Len(ResultColumns(j))
                          THEN [result EXCEPT !.index = ResultColumns(j)]
                          ELSE result
                  IN  IF Len(relabelled.columns) = Len(res_index)
                      THEN [relabelled EXCEPT !.columns = res_index]
                      ELSE relabelled

\* A re-expansion that does not transpose.
InferNoTranspose(j, rs, res_index) ==
    LET result == FrameFromResults(rs)
    IN  IF IsRaise(result) THEN result
        ELSE [result EXCEPT !.index = res_index]

\* FrameColumnApply.infer_to_same_shape
InferToSameShape(j, rs, res_index) ==
    LET result == FrameFromResults(rs)
    IN  IF IsRaise(result) THEN result
        ELSE [Transpose(result) EXCEPT !.index = res_index]

\* A column-wise reassembly that re-expands only when every result is a
\* series.
WrapColAllSeries(j, rs, res_index) ==
    IF j.result_type = "expand" THEN InferToSameShape(j, rs, res_index)
    ELSE IF \E k \in DOMAIN rs : ~IsSeries(rs[k]) THEN ObjSeries(res_index, rs)
    ELSE InferToSameShape(j, rs, res_index)

\* FrameColumnApply.wrap_results_for_axis
WrapCol(j, rs, res_index) ==
    IF j.result_type = "expand" THEN InferToSameShape(j, rs, res_index)
    ELSE IF ~IsSeries(rs[1]) THEN ObjSeries(res_index, rs)
    ELSE InferToSameShape(j, rs, res_index)

\* A wrap that asks every entry, not the first, to be a sequence.
WrapResultsOfAllEntries(j, rs, res_index) ==
    IF Len(rs) > 0 /\ \A k \in DOMAIN rs : IsSequence(rs[k])
    THEN IF j.axis = 0 THEN WrapRow(j, rs, res_index) ELSE WrapCol(j, rs, res_index)
    ELSE ReducedSeries(rs, res_index)

\* FrameApply.wrap_results
WrapResultsOf(j, rs, res_index) ==
    IF Len(rs) > 0 /\ IsSequence(rs[1])
    THEN IF j.axis = 0 THEN WrapRow(j, rs, res_index) ELSE WrapCol(j, rs, res_index)
    ELSE ReducedSeries(rs, res_index)

\* The end of apply_standard: the loop is over and the results are wrapped.
WrapResults ==
    /\ pc = "standard"
    /\ FCallable(job.f)
    /\ i = NSlices(job)
    /\ LET rs == [k \in DOMAIN results |-> Deref(job, results[k], ser)]
           out == WrapResultsOf(job, rs, ResultIndex(job))
       IN  IF IsRaise(out) THEN Fail(ErrorOf(out)) ELSE Return(out)
    /\ UNCHANGED <<inputs, kwds, job, branch, i, results, ser, result_values, calls>>

---------------------------------------------------------------------------
(* FrameApply.apply_raw                                                    *)

\* np.apply_along_axis(f, axis, values) and the constructor that follows: the
\* transformation on every one-dimensional array along the axis.  Scalars
\* give a series over the aggregation axis; arrays of the length of the
\* axis give a table under the labels of the input.
RawResultOf(j, rs) ==
    IF \A k \in DOMAIN rs : rs[k].t = "scalar"
    THEN ReducedSeries(rs, AggAxis(j.obj, j.axis))
    ELSE IF /\ Ndim(rs[1]) = 1
            /\ LenOf(rs[1]) = Len(ResultColumns(j))
            /\ \A k \in DOMAIN rs :
                  rs[k].t = "scalar" \/ (Ndim(rs[k]) = 1 /\ LenOf(rs[k]) = LenOf(rs[1]))
    THEN LET fr == MakeTable(ResultColumns(j), ResultIndex(j),
                             [row \in DOMAIN ResultColumns(j) |->
                                 [k \in DOMAIN rs |->
                                     IF rs[k].t = "scalar" THEN rs[k].values[1]
                                     ELSE rs[k].values[row]]])
         IN  IF j.axis = 0 THEN fr ELSE Transpose(fr)
    ELSE Raised("ValueError")

\* The transformation is called slice by slice; the first exception ends the
\* call.
ApplyRaw ==
    /\ pc = "raw"
    /\ LET n == NSlices(job)
           rs == [k \in 1..n |-> F(SliceAt(job, k))]
           raising == {k \in 1..n : IsRaise(rs[k])}
       IN  IF raising # {}
           THEN LET k1 == CHOOSE k \in raising : \A m \in raising : k <= m
                IN  /\ calls' = [k \in 1..k1 |-> CallOn(k - 1, SliceAt(job, k))]
                    /\ Fail(ErrorOf(rs[k1]))
           ELSE /\ calls' = [k \in 1..n |-> CallOn(k - 1, SliceAt(job, k))]
                /\ LET out == RawResultOf(job, rs)
                   IN  IF IsRaise(out) THEN Fail(ErrorOf(out)) ELSE Return(out)
    /\ UNCHANGED <<inputs, kwds, job, branch, i, results, ser, result_values>>

---------------------------------------------------------------------------
(* series_apply and SeriesApply                                            *)

\* A series with its storage type: primitive ("int64"), or an extension type
\* whose array has a map method ("ext_map") or has none ("ext_nomap").
SeriesDtypes == {"int64", "ext_map", "ext_nomap"}
TypedSeries(index, values, name, dtype) ==
    [t |-> "series", index |-> index, values |-> values, name |-> name, dtype |-> dtype]
SeriesOf(n, dtype) ==
    TypedSeries([r \in 1..n |-> RowLabel(r)],
                [r \in 1..n |-> CellValue("distinct", r, 1)], ColLabel(1), dtype)
SeriesObjects == {SeriesOf(n, d) : n \in 0..MaxRows, d \in SeriesDtypes}

\* is_extension_array_dtype(obj.dtype), hasattr(obj._values, "map")
IsExtensionDtype(dtype) == dtype \in {"ext_map", "ext_nomap"}
HasMap(dtype) == dtype = "ext_map"

\* series_apply(obj, how, func, convert_dtype, args, kwds)
SeriesInit ==
    /\ obj \in SeriesObjects
    /\ how \in {"apply", "agg"}
    /\ func \in Funcs
    /\ axis = 0
    /\ raw = FALSE
    /\ result_type = "None"
    /\ args \in ArgChoices
    /\ kwds \in KwdChoices
    /\ convert_dtype \in BOOLEAN
    /\ job = NoJob
    /\ pc = "start"
    /\ branch = 0
    /\ i = 0
    /\ results = <<>>
    /\ ser = NoSeries
    /\ result_values = <<>>
    /\ calls = <<>>
    /\ output = NoOutput
    /\ err = ""

\* SeriesApply.__init__: the flag is kept and the job is built with raw = False
\* and result_type = None.
SeriesConstruct ==
    /\ pc = "start"
    /\ job' = [obj |-> obj, how |-> how, raw |-> FALSE,
               args |-> ArgsOrEmpty(args), kwds |-> KwdsOrEmpty(kwds),
               result_type |-> "None",
               f |-> EffectiveFunction(func, args, kwds), axis |-> 0,
               convert_dtype |-> convert_dtype]
    /\ pc' = "constructed"
    /\ UNCHANGED <<inputs, kwds, branch, i, results, ser, result_values, calls, output, err>>

\* func(v, *items, **map) for an element v of a series: the transformations
\* of the model on a scalar.  The extra arguments are added to the value.
CallElement(fn, v, items, map) ==
    LET e == SumSeq(items) + SumMap(map)
        first == v = CellValue("distinct", 1, 1)
        own == SeriesResult(<<OwnLabel(1)>>, <<v + e>>, NoName, FALSE)
    IN  CASE fn.kind \notin {"callable", "ufunc"} -> Raised("TypeError")
          [] fn.kind = "ufunc" -> Scalar(0 - v)
          [] fn.beh \in {"identity", "sum", "first"} -> Scalar(v + e)
          [] fn.beh = "const" -> Scalar(7 + e)
          [] fn.beh = "raise" -> Raised("UserError")
          [] fn.beh \in {"tolist", "short", "ragged"} -> ListResult(<<v + e>>)
          [] fn.beh = "two_d" -> Array2D
          [] fn.beh = "to_dict" -> DictResult(<<OwnLabel(1)>>, <<v + e>>)
          [] fn.beh = "relabel" -> own
          [] fn.beh = "scalar_then_list" ->
               IF first THEN Scalar(7 + e) ELSE ListResult(<<v + e>>)
          [] fn.beh = "list_then_scalar" ->
               IF first THEN ListResult(<<v + e>>) ELSE Scalar(7 + e)
          [] fn.beh = "series_then_list" ->
               IF first THEN own ELSE ListResult(<<v + e>>)
          [] fn.beh = "raise_later" ->
               IF first THEN Scalar(7 + e) ELSE Raised("UserError")

\* The effective function on an element (the closure as in Invoke).
InvokeElement(f, v, a, k) ==
    IF f.curried
    THEN IF ~a.present \/ ~k.present THEN Raised("TypeError")
         ELSE CallElement(f.func, v, a.items, k.map)
    ELSE CallElement(f.func, v, <<>>, {})

FElement(v) == InvokeElement(job.f, v, args, kwds)

\* A dispatch that looks for a list or mapping before it looks at the length.
SeriesDispatchAggregateFirst(j) ==
    IF ~j.f.curried /\ j.f.func.kind \in {"list", "dict"} THEN 2
    ELSE IF Len(j.obj.index) = 0 THEN 1
    ELSE IF FIsStr(j.f) THEN 3
    ELSE 4

\* The branch of SeriesApply.apply a job takes: the first whose condition
\* holds.
SeriesDispatch(j) ==
    IF Len(j.obj.index) = 0 THEN 1
    ELSE IF ~j.f.curried /\ j.f.func.kind \in {"list", "dict"} THEN 2
    ELSE IF FIsStr(j.f) THEN 3
    ELSE 4

\* SeriesApply.apply_empty_result: an empty series of the dtype and the index
\* of the input, finalized from it (the name).
SeriesEmptyResult(sr) == TypedSeries(sr.index, <<>>, sr.name, sr.dtype)

\* get_result() with how = "apply": SeriesApply.apply
SeriesApplyDispatch ==
    /\ pc = "constructed"
    /\ job.how = "apply"
    /\ branch' = SeriesDispatch(job)
    /\ LET b == SeriesDispatch(job) IN
       CASE b = 1 -> Return(SeriesEmptyResult(job.obj))
         [] b = 2 -> Return(Delegated("aggregate"))
         [] b = 3 -> Return(Delegated("_try_aggregate_string_function"))
         [] b = 4 -> pc' = "series_standard" /\ UNCHANGED <<output, err>>
    /\ UNCHANGED <<inputs, kwds, job, i, results, ser, result_values, calls>>

\* f(obj) for a universal function: the function on every value, in a series
\* of the labels, the name and the storage type of the input.
UfuncOnSeries(sr) ==
    TypedSeries(sr.index, [k \in DOMAIN sr.values |-> 0 - sr.values[k]], sr.name, sr.dtype)

\* The sub-path of SeriesApply.apply_standard a job takes.
SubPath(j) ==
    IF FIsUfunc(j.f) THEN "ufunc"
    ELSE IF IsExtensionDtype(j.obj.dtype) /\ HasMap(j.obj.dtype) THEN "native_map"
    ELSE "map_infer"

\* The dtype a routine that infers gives to mapped values: a numeric one
\* when every value is a number, object storage if not.
InferredDtype(mapped) ==
    IF \A k \in DOMAIN mapped : mapped[k].t = "scalar" THEN "int64" ELSE "object"

\* An elementwise map that infers whatever the flag says.
MappedDtypeAlwaysInfer(j, mapped) == InferredDtype(mapped)

\* The dtype of the mapped values: obj._values.map(f) infers it;
\* lib.map_infer(values, f, convert=self.convert_dtype) infers it when the
\* flag is set and leaves object storage when it is not.
MappedDtype(j, mapped) ==
    IF SubPath(j) = "native_map" THEN InferredDtype(mapped)
    ELSE IF j.convert_dtype THEN InferredDtype(mapped)
    ELSE "object"

\* obj._constructor_expanddim(pd_array(mapped), index=obj.index)
Expanded(index, mapped) == [t |-> "expanded", index |-> index, values |-> mapped]

\* One invocation on an element, as the call log records it.
CallOnElement(sr, k) == [pos |-> k - 1, name |-> sr.index[k]]

\* SeriesApply.apply_standard.  The transformation is called element by
\* element; the first exception ends the call.
SeriesApplyStandard ==
    /\ pc = "series_standard"
    /\ LET sr == job.obj
           n == Len(sr.index)
           mapped == [k \in 1..n |-> FElement(sr.values[k])]
           raising == {k \in 1..n : IsRaise(mapped[k])}
       IN  IF SubPath(job) = "ufunc"
           THEN Return(UfuncOnSeries(sr)) /\ UNCHANGED calls
           ELSE IF raising # {}
           THEN LET k1 == CHOOSE k \in raising : \A m \in raising : k <= m
                IN  /\ calls' = [k \in 1..k1 |-> CallOnElement(sr, k)]
                    /\ Fail(ErrorOf(mapped[k1]))
           ELSE /\ calls' = [k \in 1..n |-> CallOnElement(sr, k)]
                /\ IF n > 0 /\ IsSeries(mapped[1])
                   THEN Return(Expanded(sr.index, mapped))
                   ELSE Return(TypedSeries(sr.index, mapped, sr.name,
                                           MappedDtype(job, mapped)))
    /\ UNCHANGED <<inputs, kwds, job, branch, i, results, ser, result_values>>

SeriesNext ==
    \/ SeriesConstruct
    \/ Agg
    \/ SeriesApplyDispatch
    \/ SeriesApplyStandard

SeriesSpec == SeriesInit /\ [][SeriesNext]_vars

Next ==
    \/ Construct
    \/ Agg
    \/ Apply
    \/ ApplyEmptyResult
    \/ BroadcastStep
    \/ BroadcastFinish
    \/ StandardStep
    \/ WrapResults
    \/ ApplyRaw

Spec == Init /\ [][Next]_vars

---------------------------------------------------------------------------
(* The claims                                                              *)

Branches == 1..8
Constructed == job # NoJob
\* The job was refused at construction: the call failed and no job exists.
ConstructionFailed == pc = "failed" /\ ~Constructed

\* C1: FrameApply.apply takes exactly one branch, the first whose condition
\* holds in the order: list or mapping (1), zero rows and zero columns (2),
\* method name (3), universal function (4), result_type 'broadcast' (5), one
\* axis empty (6), raw (7), standard (8); and the call continues in the path
\* of that branch.
C1_DispatchOrder ==
    LET c1 == func.kind \in {"list", "dict"}
        c2 == NRows(obj) = 0 /\ NCols(obj) = 0
        c3 == func.kind = "str"
        c4 == func.kind = "ufunc"
        c5 == result_type = "broadcast"
        c6 == (NRows(obj) = 0) # (NCols(obj) = 0)
        c7 == raw
    IN  /\ (pc \notin {"start", "constructed"} /\ Constructed /\ how = "apply")
              => branch \in Branches
        /\ branch # 0 =>
              /\ how = "apply"
              /\ (branch = 1) = c1
              /\ (branch = 2) = (~c1 /\ c2)
              /\ (branch = 3) = (~c1 /\ ~c2 /\ c3)
              /\ (branch = 4) = (~c1 /\ ~c2 /\ ~c3 /\ c4)
              /\ (branch = 5) = (~c1 /\ ~c2 /\ ~c3 /\ ~c4 /\ c5)
              /\ (branch = 6) = (~c1 /\ ~c2 /\ ~c3 /\ ~c4 /\ ~c5 /\ c6)
              /\ (branch = 7) = (~c1 /\ ~c2 /\ ~c3 /\ ~c4 /\ ~c5 /\ ~c6 /\ c7)
              /\ (branch = 8) = (~c1 /\ ~c2 /\ ~c3 /\ ~c4 /\ ~c5 /\ ~c6 /\ ~c7)
              /\ (branch = 1 /\ pc = "done") => output = Delegated("aggregate")
              /\ (branch = 3 /\ pc = "done") => output = Delegated("method")
              /\ (branch = 4 /\ pc = "done") => output.t = "table" /\ calls = <<>>
        /\ pc = "empty" => branch \in {2, 6}
        /\ pc = "broadcast" => branch = 5
        /\ pc = "raw" => branch = 7
        /\ pc = "standard" => branch = 8

\* A table with one empty axis and result_type 'broadcast' went through the
\* broadcast evaluator.
C1_Witness ==
    /\ branch = 5
    /\ pc = "done"
    /\ NCols(obj) = 0
    /\ NRows(obj) > 0

\* C2: construction fails, with ValueError, exactly when result_type is not
\* one of None, 'reduce', 'broadcast', 'expand'; the failure comes before any
\* invocation of the transformation and before any result.
C2_ResultTypeValidated ==
    pc # "start" =>
        /\ ConstructionFailed = (result_type \notin {"None", "reduce", "broadcast", "expand"})
        /\ ConstructionFailed =>
              /\ err = "ValueError"
              /\ calls = <<>>
              /\ output = NoOutput
              /\ branch = 0
        /\ Constructed => job.result_type = result_type

C2_Witness == ConstructionFailed /\ result_type = "bogus" /\ func.kind = "callable"

\* C3: over a table with at least one row and one column, the identity
\* transformation with raw = false, result_type = None and no extra arguments
\* gives, for axis 0 and for axis 1, a table with the labels and the cells of
\* the input.
IdentityJob ==
    /\ how = "apply"
    /\ func = [kind |-> "callable", beh |-> "identity", cython |-> FALSE]
    /\ ~raw
    /\ result_type = "None"
    /\ ~Truthy(args)
    /\ ~TruthyKw(kwds)
    /\ NRows(obj) >= 1
    /\ NCols(obj) >= 1

C3_IdentityRoundTrip ==
    IdentityJob =>
        /\ pc # "failed"
        /\ pc = "done" =>
              /\ output.t = "table"
              /\ output.index = obj.index
              /\ output.columns = obj.columns
              /\ output.values = obj.values

C3_Witness ==
    /\ IdentityJob
    /\ pc = "done"
    /\ axis = 1
    /\ NRows(obj) = MaxRows
    /\ NCols(obj) = MaxCols

\* C4 as stated: over a table with no rows and no columns, every callable
\* transformation with result_type None gives a copy of the input table.
AllEmptyJob ==
    /\ how = "apply"
    /\ func.kind \in {"callable", "ufunc"}
    /\ result_type = "None"
    /\ NRows(obj) = 0
    /\ NCols(obj) = 0

C4_AlwaysCopy ==
    (AllEmptyJob /\ pc \in {"done", "failed"}) =>
        /\ pc = "done"
        /\ output = CopyTable(obj)

\* C4, amended: over a table with no rows and no columns and result_type None,
\* a callable that raises on the empty probe or returns a series for it gives
\* a copy of the input table; a callable that returns anything else for the
\* probe gives an empty series labelled by the (empty) aggregation axis.  The
\* call never fails.
C4_CopyUnlessReduction ==
    (AllEmptyJob /\ pc \in {"done", "failed"}) =>
        LET probe == F(EmptyProbe)
        IN  /\ pc = "done"
            /\ (probe.t \in {"raise", "series"}) => output = CopyTable(obj)
            /\ (probe.t \notin {"raise", "series"}) =>
                   /\ output.t = "series"
                   /\ output.index = <<>>
                   /\ output.values = <<>>

C4_Witness ==
    /\ AllEmptyJob
    /\ pc = "done"
    /\ output.t = "series"
    /\ func.beh = "sum"

\* C5: in broadcast mode each slice's result is checked in turn: more than
\* one dimension fails with 'too many dims to broadcast', one dimension of a
\* length other than the slice's fails with 'cannot broadcast result', and a
\* scalar or a one-dimensional result of the right length is written to that
\* slice's positions of the buffer and to no other; a failure returns nothing.
C5_Step ==
    (pc = "broadcast" /\ i < NCols(BroadcastTarget(job))) =>
        LET slice == IF axis = 0 THEN ColumnSlice(obj, i + 1) ELSE RowSlice(obj, i + 1)
            res == F(slice)
            n == Len(slice.values)
            written(v) ==
                /\ pc' = "broadcast"
                /\ i' = i + 1
                /\ DOMAIN result_values' = DOMAIN result_values
                /\ \A r \in DOMAIN result_values :
                      /\ DOMAIN result_values'[r] = DOMAIN result_values[r]
                      /\ \A c \in DOMAIN result_values[r] :
                            result_values'[r][c] =
                                IF c = i + 1 THEN v[r] ELSE result_values[r][c]
            failed(e) == pc' = "failed" /\ err' = e /\ output' = NoOutput
        IN  CASE res.t = "array2d" -> failed("ValueError: too many dims to broadcast")
              [] res.t \in {"series", "list"} /\ Len(res.values) # n ->
                    failed("ValueError: cannot broadcast result")
              [] res.t \in {"series", "list"} /\ Len(res.values) = n -> written(res.values)
              [] res.t = "scalar" -> written([r \in 1..n |-> res.values[1]])
              [] OTHER -> pc' = "failed" /\ output' = NoOutput

C5_BroadcastChecks ==
    /\ [][C5_Step]_vars
    /\ [](pc = "broadcast" =>
             \A r \in DOMAIN result_values : \A c \in DOMAIN result_values[r] :
                 c > i => result_values[r][c] = Uninit)

\* The first slice's list is in the buffer and the second slice's positions
\* are still unwritten.
C5_Witness ==
    /\ pc = "broadcast"
    /\ func.beh = "tolist"
    /\ i = 1
    /\ NRows(obj) = 2
    /\ NCols(obj) = 2
    /\ result_values[2][1] # Uninit
    /\ result_values[2][2] = Uninit

\* C6: whenever broadcast mode returns, the table it returns has the shape,
\* the row labels and the column labels of the input, and slice k of the
\* input (column k for axis 0, row k for axis 1) holds the transformation's
\* result for that slice.
C6_BroadcastKeepsLayout ==
    (pc = "done" /\ branch = 5) =>
        /\ output.t = "table"
        /\ output.index = obj.index
        /\ output.columns = obj.columns
        /\ DOMAIN output.values = 1..NRows(obj)
        /\ \A r \in 1..NRows(obj) :
              /\ DOMAIN output.values[r] = 1..NCols(obj)
              /\ \A c \in 1..NCols(obj) :
                    LET res == IF axis = 0 THEN F(ColumnSlice(obj, c)) ELSE F(RowSlice(obj, r))
                        pos == IF axis = 0 THEN r ELSE c
                    IN  output.values[r][c] =
                            IF res.t = "scalar" THEN res.values[1] ELSE res.values[pos]

C6_Witness ==
    /\ pc = "done"
    /\ branch = 5
    /\ axis = 1
    /\ func.beh = "relabel"
    /\ NRows(obj) = 1
    /\ NCols(obj) = 2

\* C7: in the standard path the transformation is invoked once per slice in
\* the order of the positions 0, 1, ..., n-1; when the loop is over the
\* raw-result map holds, at every position, the result for the slice of that
\* position; and the output keeps the order: entry k is labelled by the k-th
\* label of the result index and is made of result k (a scalar among
\* sequences fills its whole line of a table).
C7_SliceOrder ==
    branch = 8 =>
        LET n == IF axis = 0 THEN NCols(obj) ELSE NRows(obj)
            slice(k) == IF axis = 0 THEN ColumnSlice(obj, k) ELSE RowSlice(obj, k)
            res_index == IF axis = 0 THEN obj.columns ELSE obj.index
            sameAs(stored, r) ==
                /\ stored.t = r.t
                /\ stored.index = r.index
                /\ stored.values = r.values
                /\ stored.name = r.name
            line(r, len) ==
                IF r.t = "scalar" THEN [m \in 1..len |-> r.values[1]] ELSE r.values
        IN  /\ Len(calls) <= n
            /\ \A k \in DOMAIN calls : calls[k] = [pos |-> k - 1, name |-> slice(k).name]
            /\ pc = "standard" => Len(calls) = i
            /\ pc \in {"standard", "done"} =>
                  /\ DOMAIN results = 1..i
                  /\ \A k \in 1..i : sameAs(Deref(job, results[k], ser), F(slice(k)))
            /\ pc = "done" =>
                  /\ i = n
                  /\ Len(calls) = n
                  /\ output.t \in {"series", "objseries"} =>
                        /\ output.index = res_index
                        /\ \A k \in 1..n :
                              IF output.t = "series"
                              THEN output.values[k] = F(slice(k)).values[1]
                              ELSE sameAs(output.values[k], F(slice(k)))
                  /\ (output.t = "table" /\ axis = 0) =>
                        /\ output.columns = res_index
                        /\ \A k \in 1..n :
                              [r \in DOMAIN output.values |-> output.values[r][k]]
                                  = line(F(slice(k)), Len(output.values))
                  /\ (output.t = "table" /\ axis = 1) =>
                        /\ output.index = res_index
                        /\ \A k \in 1..n :
                              output.values[k] = line(F(slice(k)), Len(output.columns))

C7_Witness ==
    /\ branch = 8
    /\ pc = "done"
    /\ axis = 1
    /\ Len(calls) = 2
    /\ output.t = "table"
    /\ func.beh = "tolist"
    /\ result_type = "expand"

\* C8: agg classifies the transformation in the order string, mapping, list,
\* callable: a method name gives the named aggregation with no flag, a mapping
\* the dict planner's result with the flag, a list the list planner's result
\* with no flag, a callable known as a built-in reduction and called with no
\* extra args or kwds the built-in's result with no flag, and everything else
\* (None, flag).  It does not raise.
C8_AggResolution ==
    (how = "agg" /\ pc \notin {"start", "constructed"} /\ Constructed) =>
        /\ pc = "done"
        /\ output =
              CASE func.kind = "str" ->
                     AggResult(Delegated("_try_aggregate_string_function"), "None")
                [] func.kind = "dict" -> AggResult(Delegated("agg_dict_like"), "True")
                [] func.kind = "list" -> AggResult(Delegated("agg_list_like"), "None")
                [] func.kind = "callable" /\ func.cython /\ job.f = Uncurried(func)
                        /\ job.args = <<>> /\ job.kwds = {} ->
                     AggResult(Delegated("cython"), "None")
                [] OTHER -> AggResult(NoOutput, "True")

C8_Witness ==
    /\ how = "agg"
    /\ pc = "done"
    /\ func.kind = "dict"
    /\ output = AggResult(Delegated("agg_dict_like"), "True")

\* C9 as stated: when at least one of the extra args and kwds is non-empty, the
\* effective function of a job over a plain callable returns, for every slice,
\* what the callable returns for the slice and the extra arguments, an absent
\* args or kwds counting as empty; for every other transformation, and when
\* neither is non-empty, the effective function is the transformation itself.
ProbeSlices == {EmptyProbe, ColumnSlice(Table(2, 1, "distinct"), 1)}

C9_Currying ==
    Constructed =>
        IF (Truthy(args) \/ TruthyKw(kwds)) /\ func.kind = "callable"
        THEN \A x \in ProbeSlices :
                 F(x) = Call(func, x, IF args.present THEN args.items ELSE <<>>,
                             IF kwds.present THEN kwds.map ELSE {})
        ELSE (func.kind # "none") => job.f = Uncurried(func)

\* C10 as stated: in the degenerate-empty path result_type 'broadcast' or
\* 'expand' gives a copy without invoking the transformation; otherwise the
\* transformation counts as a reduction when result_type is 'reduce' or the
\* probe succeeds with something that is no series, and then the result is a
\* series over the aggregation axis, of the probe's value when the axis has
\* labels and of NaN (none) when it has not; a non-reduction gives a copy.
EmptyPathJob ==
    /\ how = "apply"
    /\ branch \in {2, 6}
    /\ func.kind \in {"callable", "ufunc"}
    /\ pc \in {"done", "failed"}

\* The job's closure, if it has one, was built over args and kwds that can be
\* unpacked (neither is absent).
ClosureCallable == job.f.curried => (args.present /\ kwds.present)

C10_EmptyPath ==
    (EmptyPathJob /\ ClosureCallable) =>
        LET probe == F(EmptyProbe)
            agg == IF axis = 0 THEN obj.columns ELSE obj.index
            reduction == result_type = "reduce" \/ probe.t \notin {"raise", "series"}
        IN  /\ pc = "done"
            /\ IF result_type \in {"broadcast", "expand"}
               THEN output = CopyTable(obj) /\ calls = <<>>
               ELSE IF reduction
               THEN /\ output.t = "series"
                    /\ output.index = agg
                    /\ probe.t = "scalar" =>
                          \A k \in DOMAIN agg : output.values[k] = probe.values[1]
               ELSE output = CopyTable(obj)

\* C10, amended: as stated, except that the invocation which computes the
\* value for a non-empty aggregation axis is unguarded: an exception the
\* transformation raises there (possible under result_type 'reduce' only)
\* ends the call, as does the series constructor refusing the value (a list
\* whose length is not the axis's).
C10_EmptyPathUnguardedValue ==
    EmptyPathJob =>
        LET probe == F(EmptyProbe)
            agg == IF axis = 0 THEN obj.columns ELSE obj.index
            reduction == result_type = "reduce" \/ probe.t \notin {"raise", "series"}
        IN  IF result_type \in {"broadcast", "expand"}
            THEN pc = "done" /\ output = CopyTable(obj) /\ calls = <<>>
            ELSE IF ~reduction
            THEN pc = "done" /\ output = CopyTable(obj)
            ELSE IF agg = <<>>
            THEN /\ pc = "done"
                 /\ output = MakeSeries(<<>>, <<>>, NoName)
                 /\ result_type = "reduce" => calls = <<>>
            ELSE CASE probe.t = "raise" ->
                        pc = "failed" /\ err = ErrorOf(probe) /\ result_type = "reduce"
                   [] probe.t = "scalar" ->
                        /\ pc = "done"
                        /\ output = MakeSeries(agg, [k \in DOMAIN agg |-> probe.values[1]],
                                               NoName)
                   [] probe.t = "list" /\ Len(probe.values) # Len(agg) ->
                        pc = "failed" /\ err = "ValueError"
                   [] OTHER ->
                        pc = "failed" \/ (output.t = "series" /\ output.index = agg)

C10_Witness ==
    /\ EmptyPathJob
    /\ branch = 6
    /\ pc = "done"
    /\ result_type = "None"
    /\ func.beh = "sum"
    /\ axis = 0
    /\ NCols(obj) = 2
    /\ output = MakeSeries(obj.columns, <<0, 0>>, NoName)

\* The standard path has run its loop to the end and wrapped the results (or
\* failed doing so).
Wrapped == branch = 8 /\ pc \in {"done", "failed"} /\ i = NSlices(job)

\* The raw result for the k-th slice along the axis of the call.
RawResult(k) == F(IF axis = 0 THEN ColumnSlice(obj, k) ELSE RowSlice(obj, k))

\* A stored or returned raw result is the raw result r.
SameResult(stored, r) ==
    /\ stored.t = r.t
    /\ stored.index = r.index
    /\ stored.values = r.values
    /\ stored.name = r.name

\* The output is the reduced series of the raw results, in positional order,
\* under the labels of the result index.
OutputIsReducedSeries ==
    LET n == IF axis = 0 THEN NCols(obj) ELSE NRows(obj)
    IN  /\ pc = "done"
        /\ output.t \in {"series", "objseries"}
        /\ output.index = (IF axis = 0 THEN obj.columns ELSE obj.index)
        /\ DOMAIN output.values = 1..n
        /\ \A k \in 1..n :
              IF output.t = "series"
              THEN RawResult(k).t = "scalar" /\ output.values[k] = RawResult(k).values[1]
              ELSE SameResult(output.values[k], RawResult(k))

\* Row-wise reassembly went on to the table constructor: the first result is
\* a sequence, result_type is not 'reduce' and the results are not the
\* mappings of a result_type None call.
RowWiseTableAttempt ==
    /\ Wrapped
    /\ axis = 0
    /\ IsSequence(RawResult(1))
    /\ result_type # "reduce"
    /\ ~(result_type = "None" /\ \A k \in 1..NCols(obj) : RawResult(k).t = "dict")

\* C11: in row-wise reassembly, results that are positional sequences of
\* unequal lengths do not fail the call: the output is the reduced series of
\* the raw results, in order, under the original column labels.  A result the
\* table constructor refuses for another reason (two dimensions) fails the
\* call with the constructor's error.
C11_UnequalLengthsFallBack ==
    RowWiseTableAttempt =>
        LET n == NCols(obj)
            lens == {Len(RawResult(k).values) : k \in 1..n}
        IN  /\ ((\A k \in 1..n : RawResult(k).t = "list") /\ Cardinality(lens) > 1) =>
                  /\ OutputIsReducedSeries
                  /\ output.t = "objseries"
            /\ (\E k \in 1..n : RawResult(k).t = "array2d") =>
                  /\ pc = "failed"
                  /\ err = "ValueError"
                  /\ output = NoOutput

C11_Witness ==
    /\ RowWiseTableAttempt
    /\ func.beh = "ragged"
    /\ result_type = "expand"
    /\ NCols(obj) = 2
    /\ NRows(obj) = 2
    /\ pc = "done"
    /\ output.t = "objseries"
    /\ Len(output.values[1].values) = 2
    /\ Len(output.values[2].values) = 1

\* Row-wise reassembly of sequence-like results.
RowWiseReassembly == Wrapped /\ axis = 0 /\ IsSequence(RawResult(1))

AllMappings == \A k \in 1..NCols(obj) : RawResult(k).t = "dict"

\* C12 as stated: in row-wise reassembly of sequence-like results,
\* result_type 'reduce', or raw results that are all plain mappings under any
\* result_type, give the reduced series of the raw results under the column
\* labels.
C12_MappingsAlwaysReduce ==
    (RowWiseReassembly /\ (result_type = "reduce" \/ AllMappings)) =>
        /\ OutputIsReducedSeries
        /\ output.t = "objseries"

\* C12, amended: result_type 'reduce', or raw results that are all plain
\* mappings when result_type is None, give the reduced series of the raw
\* results under the column labels, whatever the results' lengths and
\* dimensions (no table is built).  Under result_type 'expand' mappings go to
\* the table constructor like any other sequence: the output is a table with
\* a row per key and a column per original column.
C12_MappingsReduceWhenNone ==
    RowWiseReassembly =>
        /\ (result_type = "reduce" \/ (result_type = "None" /\ AllMappings)) =>
              /\ OutputIsReducedSeries
              /\ output.t = "objseries"
        /\ (result_type = "expand" /\ AllMappings) =>
              /\ pc = "done"
              /\ output.t = "table"
              /\ output.index = obj.index
              /\ output.columns = obj.columns
              /\ \A r \in 1..NRows(obj) : \A c \in 1..NCols(obj) :
                    output.values[r][c] = RawResult(c).values[r]

C12_Witness ==
    /\ RowWiseReassembly
    /\ result_type = "None"
    /\ func.beh = "to_dict"
    /\ NCols(obj) = 2
    /\ NRows(obj) = 2
    /\ pc = "done"
    /\ output.t = "objseries"
    /\ output.values[2].t = "dict"

\* Every raw result of a row-wise call is a one-dimensional sequence (a list
\* or a series) of length len.
SameLengthSequences(len) ==
    \A k \in 1..NCols(obj) :
        /\ RawResult(k).t \in {"list", "series"}
        /\ Len(RawResult(k).values) = len

ColWiseReassembly == Wrapped /\ axis = 1 /\ IsSequence(RawResult(1))

\* The keys of a raw result: its labels, or its positions.
KeysOf(r) == IF r.t \in {"series", "dict"} THEN r.index ELSE RangeIndex(Len(r.values))

\* The output is the re-expanded table: a row per original row under the
\* original row labels, row k made of result k (a scalar fills its row), the
\* columns labelled by the keys of the results.
OutputIsReExpanded ==
    /\ pc = "done"
    /\ output.t = "table"
    /\ output.index = obj.index
    /\ output.columns = KeysOf(RawResult(1))
    /\ \A k \in 1..NRows(obj) :
          output.values[k] =
              IF RawResult(k).t = "scalar"
              THEN [c \in 1..Len(output.columns) |-> RawResult(k).values[1]]
              ELSE RawResult(k).values

\* C14 as stated: column-wise reassembly re-expands when result_type is
\* 'expand' or every raw result is a series, and gives the reduced series
\* under the original row labels in every other case.
C14_AllSeriesOrExpand ==
    ColWiseReassembly =>
        IF result_type = "expand" \/ \A k \in 1..NRows(obj) : RawResult(k).t = "series"
        THEN OutputIsReExpanded
        ELSE OutputIsReducedSeries

\* C14, amended: column-wise reassembly re-expands when result_type is
\* 'expand' or the first raw result is a series, whatever the later results
\* are, and gives the reduced series under the original row labels otherwise.
\* Re-expansion has no fallback: results the table constructor refuses
\* (two dimensions, lists of unequal lengths) fail the call with its error.
C14_FirstResultDecides ==
    ColWiseReassembly =>
        LET n == NRows(obj)
            lens == {Len(RawResult(k).values) : k \in {m \in 1..n : RawResult(m).t = "list"}}
        IN  IF result_type = "expand" \/ RawResult(1).t = "series"
            THEN IF \E k \in 1..n : RawResult(k).t = "array2d"
                 THEN pc = "failed" /\ err = "ValueError" /\ output = NoOutput
                 ELSE IF Cardinality(lens) > 1
                 THEN pc = "failed" /\ err = SameLengthError /\ output = NoOutput
                 ELSE OutputIsReExpanded
            ELSE OutputIsReducedSeries

\* A series for the first row and lists for the others, result_type None: the
\* output is a table.
C14_Witness ==
    /\ ColWiseReassembly
    /\ result_type = "None"
    /\ func.beh = "series_then_list"
    /\ NRows(obj) = 2
    /\ NCols(obj) = 2
    /\ pc = "done"
    /\ output.t = "table"
    /\ output.index = obj.index
    /\ output.columns = obj.columns

\* The call is a series job that went through SeriesApply.apply.
SeriesDispatched == job # NoJob /\ how = "apply" /\ pc \notin {"start", "constructed"}

\* C15: SeriesApply.apply takes the first branch that matches, in the order:
\* empty series (1), list or mapping (2), method name (3), standard (4).  An
\* empty series gives an empty series of the dtype, the index and the name of
\* the input, whatever the transformation is, and nothing is invoked or
\* delegated; a list or mapping goes to aggregate, a method name is invoked
\* by name, everything else is mapped elementwise.
C15_SeriesDispatchOrder ==
    LET empty == Len(obj.index) = 0
        collection == func.kind \in {"list", "dict"}
        name == func.kind = "str"
    IN  /\ SeriesDispatched => branch \in 1..4
        /\ branch # 0 =>
              /\ SeriesDispatched
              /\ (branch = 1) = empty
              /\ (branch = 2) = (~empty /\ collection)
              /\ (branch = 3) = (~empty /\ ~collection /\ name)
              /\ (branch = 4) = (~empty /\ ~collection /\ ~name)
              /\ branch = 1 =>
                    /\ pc = "done"
                    /\ calls = <<>>
                    /\ output = TypedSeries(obj.index, <<>>, obj.name, obj.dtype)
              /\ branch = 2 => pc = "done" /\ calls = <<>> /\ output = Delegated("aggregate")
              /\ branch = 3 =>
                    /\ pc = "done"
                    /\ calls = <<>>
                    /\ output = Delegated("_try_aggregate_string_function")
              /\ branch = 4 => pc \in {"series_standard", "done", "failed"}
        /\ pc = "series_standard" => branch = 4

\* An empty extension-typed series and a list of functions: the empty result,
\* not the aggregate.
C15_Witness ==
    /\ SeriesDispatched
    /\ branch = 1
    /\ func.kind = "list"
    /\ obj.dtype = "ext_map"
    /\ pc = "done"
    /\ output = TypedSeries(<<>>, <<>>, obj.name, "ext_map")

\* The standard elementwise path returned a series.
SeriesMapped == SeriesDispatched /\ branch = 4 /\ pc = "done" /\ output.t = "series"

\* C16 as stated: with convert_dtype = false the series the standard
\* elementwise path returns has object storage, in every sub-path.
C16_NeverNarrowed == (SeriesMapped /\ ~convert_dtype) => output.dtype = "object"

\* C16, amended: the flag governs the generic object-typed map only.  There
\* the output has object storage when convert_dtype is false, even if every
\* mapped value is a number, and an inferred dtype when it is true.  A
\* universal function is applied to the whole series and the storage type's
\* own map infers its result, both without consulting the flag.
C16_NotNarrowedInGenericMap ==
    SeriesMapped =>
        LET numeric == \A k \in DOMAIN output.values : output.values[k].t = "scalar"
        IN  CASE func.kind = "ufunc" -> output.dtype = obj.dtype
              [] func.kind # "ufunc" /\ obj.dtype = "ext_map" ->
                   output.dtype = (IF numeric THEN "int64" ELSE "object")
              [] OTHER ->
                   output.dtype = (IF convert_dtype /\ numeric THEN "int64" ELSE "object")

\* Numbers mapped to numbers with convert_dtype = false over primitive
\* storage: object storage.
C16_Witness ==
    /\ SeriesMapped
    /\ ~convert_dtype
    /\ obj.dtype = "int64"
    /\ func.beh = "identity"
    /\ func.kind = "callable"
    /\ Len(obj.index) = 2
    /\ output.dtype = "object"
    /\ output.values = <<Scalar(11), Scalar(21)>>

\* C17: in the column-wise standard path the generator's one series object
\* holds the data and the label of the row the loop is at, and every stored
\* result that is a series is a copy, not that object: at every step of the
\* loop and after it, result k reads as the values and the label the
\* transformation returned for row k.
C17_StoredResultsKept ==
    (branch = 8 /\ axis = 1 /\ job # NoJob) =>
        /\ (pc = "standard" /\ i >= 1) => ser = RowSlice(obj, i)
        /\ \A k \in DOMAIN results :
              results[k].t = "series" =>
                  LET now == Deref(job, results[k], ser)
                  IN  /\ ~results[k].alias
                      /\ now.values = RawResult(k).values
                      /\ now.name = RawResult(k).name
                      /\ now.index = RawResult(k).index

\* The identity over two rows: the generator is at the second row and the
\* result stored for the first still holds the first row.
C17_Witness ==
    /\ branch = 8
    /\ axis = 1
    /\ pc = "standard"
    /\ func.beh = "identity"
    /\ ~job.f.curried
    /\ NRows(obj) = 2
    /\ NCols(obj) = 2
    /\ i = 2
    /\ ser = RowSlice(obj, 2)
    /\ results[1].values = RowSlice(obj, 1).values
    /\ results[1].name = RowLabel(1)
    /\ results[1].values # ser.values

\* The standard path over a callable: an exception of the transformation on a
\* slice ends the call with that exception; the slices after it are not
\* visited and nothing is returned.
StandardPathPropagates ==
    (branch = 8 /\ func.kind = "callable") =>
        LET raising == {k \in 1..NSlices(job) : RawResult(k).t = "raise"}
        IN  raising # {} =>
                LET k1 == CHOOSE k \in raising : \A m \in raising : k <= m
                IN  /\ Len(calls) <= k1
                    /\ i < k1
                    /\ pc \in {"standard", "failed"}
                    /\ output = NoOutput
                    /\ pc = "failed" =>
                          /\ err = RawResult(k1).name[1]
                          /\ Len(calls) = k1
                          /\ calls[k1].pos = k1 - 1

\* C18 as stated: the standard path propagates, and an exception of the
\* transformation on the empty probe never reaches the caller, whatever the
\* result_type: the probe counts as not reduction-like.
C18_ProbeNeverSurfaces ==
    /\ StandardPathPropagates
    /\ (EmptyPathJob /\ ClosureCallable /\ F(EmptyProbe).t = "raise") => pc = "done"

\* C18, amended: the standard path propagates.  In the degenerate-empty
\* path the probe made to infer a reduction (result_type None) is guarded:
\* its exception is not surfaced and the input is copied.  The invocation
\* that computes the value under result_type 'reduce' over a non-empty
\* aggregation axis is not: its exception ends the call.
C18_ExceptionsPropagate ==
    /\ StandardPathPropagates
    /\ (EmptyPathJob /\ F(EmptyProbe).t = "raise") =>
          IF result_type = "reduce" /\ (IF axis = 0 THEN obj.columns ELSE obj.index) # <<>>
          THEN /\ pc = "failed"
               /\ err = F(EmptyProbe).name[1]
               /\ output = NoOutput
          ELSE /\ pc = "done"
               /\ result_type # "reduce" => output = CopyTable(obj)

\* The transformation returned for the first column and raised on the
\* second: the call failed with its exception after two invocations.
C18_Witness ==
    /\ branch = 8
    /\ axis = 0
    /\ func.beh = "raise_later"
    /\ ~job.f.curried
    /\ NCols(obj) = 2
    /\ pc = "failed"
    /\ err = "UserError"
    /\ Len(calls) = 2
    /\ Len(results) = 1
    /\ output = NoOutput

\* C19 as stated: once a job is constructed, no operation on it (get_result,
\* apply, agg) changes its extra positional args, its extra keyword args, its
\* axis, its raw flag or its result_type, and the keyword mapping the caller
\* passed in is never modified.
C19_ConfigUnchanged ==
    [][/\ kwds' = kwds
       /\ job # NoJob =>
             /\ job'.args = job.args
             /\ job'.kwds = job.kwds
             /\ job'.axis = job.axis
             /\ job'.raw = job.raw
             /\ job'.result_type = job.result_type]_vars

\* C20: when the loop of the standard path is over, the entry at position 0
\* alone decides how the results are wrapped: if it is a sequence the
\* reassembly of the axis is applied to the results (and its outcome is the
\* outcome of the call), if it is not the output is the reduced series of all
\* the raw results, in order, under the result index, whatever the later
\* entries are.
C20_FirstEntryDecides ==
    (Wrapped /\ func.kind = "callable") =>
        IF RawResult(1).t \in {"series", "list", "dict", "array2d"}
        THEN LET rs == [k \in DOMAIN results |-> Deref(job, results[k], ser)]
                 out == IF axis = 0 THEN WrapRow(job, rs, obj.columns)
                        ELSE WrapCol(job, rs, obj.index)
             IN  IF out.t = "raise"
                 THEN pc = "failed" /\ err = out.name[1] /\ output = NoOutput
                 ELSE pc = "done" /\ output = out
        ELSE OutputIsReducedSeries

\* A scalar for the first column and a list for the second: a series that
\* holds both.
C20_Witness ==
    /\ Wrapped
    /\ axis = 0
    /\ func.beh = "scalar_then_list"
    /\ NCols(obj) = 2
    /\ NRows(obj) = 2
    /\ pc = "done"
    /\ output.t = "objseries"
    /\ output.index = obj.columns
    /\ output.values[1].t = "scalar"
    /\ output.values[2].t = "list"

\* The transformation is of one of the five classified kinds.
ClassifiedKind == func.kind \in {"callable", "ufunc", "str", "list", "dict"}

\* C21 as stated: for a transformation of one of the five classified kinds,
\* over every table shape, axis, raw flag and valid result_type, no internal
\* assertion of the table apply path fails: the call never ends with an
\* AssertionError.
C21_NoAssertionFails ==
    (ClassifiedKind /\ how = "apply") => err # "AssertionError"

============================================================================
